---- MODULE Spec2Model ----
(***************************************************************************)
(* Audio synthesis and playback engine of the Bengali neural voice app.    *)
(*                                                                         *)
(* The module holds three specifications over one set of variables:        *)
(*   Spec        - the App component of src/App.tsx as a state machine of  *)
(*                 React state, Web Audio nodes, pending promises, timers  *)
(*                 and animation frames;                                   *)
(*   SpecOverlay - the App component of src/unnamed/part_000, whose        *)
(*                 play/pause button lies over the visualizer;             *)
(*   SpecCodec   - the pure byte-level functions (synthesizeSpeech,        *)
(*                 pcmToAudioBuffer, audioBufferToWav) applied to inputs   *)
(*                 drawn from bounded sets.                                *)
(*                                                                         *)
(* Numbers.  A float sample is the rational num / Den; the model stores    *)
(* num.  Time is counted in sample periods of the 24 kHz context, so an    *)
(* AudioBuffer of n frames at 24 kHz has duration n.  The playback rate    *)
(* is stored in tenths (10 = 1.0x).  A base64 string is the sequence of    *)
(* the 6-bit values of its symbols, Pad for "=" and Ws for whitespace.     *)
(***************************************************************************)
EXTENDS Integers, Sequences, FiniteSets, TLC

\* ------------------------------------------------------------------ bounds
\* samples (frames times channels) of a buffer handed to the encoder
MaxSamples == 4
\* fragments of a stream handed to synthesizeSpeech
MaxFragments == 3
\* bytes handed to pcmToAudioBuffer
MaxBytes == 6
\* user gestures in one run of the session
MaxOps == 4
MaxWords == 4

\* ------------------------------------------------------- program constants
\* samples are multiples of 1 / Den, twice as fine as the 0x8000 quantizer
Den == 2 * 32768
CtxSampleRate == 24000
FilterFrequency == 3000
FilterQ == 1
Pad == 64
Ws == 65

\* --------------------------------------------------------------- utilities
Min(a, b) == IF a < b THEN a ELSE b
Max(a, b) == IF a > b THEN a ELSE b

\* Quotient rounded toward zero, as a JS number is truncated by ToInt16.
TruncDiv(a, b) == IF a >= 0 THEN a \div b ELSE (a + (b - 1)) \div b

RECURSIVE ConcatAll(_)
ConcatAll(ss) == IF ss = <<>> THEN <<>> ELSE Head(ss) \o ConcatAll(Tail(ss))

RECURSIVE SumLen(_)
SumLen(ss) == IF ss = <<>> THEN 0 ELSE Len(Head(ss)) + SumLen(Tail(ss))


\* -------------------------------------------------------------------- text
\* A text is a sequence of characters; "a" stands for any character that is
\* neither whitespace nor an angle bracket.
TextEmpty == <<>>
TextTwo == <<"a", " ", "a">>
TextTagged == <<"<", "a", ">", "a", " ", "a", " ", "a">>
Texts == {TextEmpty, TextTwo, TextTagged}

\* Index of the first ">" at or after position i, 0 when there is none.
RECURSIVE FindClose(_, _)
FindClose(t, i) ==
  IF i > Len(t) THEN 0
  ELSE IF t[i] = ">" THEN i
  ELSE FindClose(t, i + 1)

\* text.replace(/<[^>]*>/g, '')
RECURSIVE stripSSML(_)
stripSSML(t) ==
  IF t = <<>> THEN <<>>
  ELSE IF Head(t) = "<"
       THEN LET c == FindClose(t, 2)
            IN IF c = 0 THEN t ELSE stripSSML(SubSeq(t, c + 1, Len(t)))
       ELSE <<Head(t)>> \o stripSSML(Tail(t))

\* str.split(/\s+/): the pieces between maximal whitespace runs; the empty
\* string splits into one empty word, leading or trailing whitespace gives
\* an empty first or last word.
RECURSIVE SplitFrom(_, _, _)
SplitFrom(t, i, cur) ==
  IF i > Len(t) THEN <<cur>>
  ELSE IF t[i] = " "
       THEN IF i > 1 /\ t[i - 1] = " "
            THEN SplitFrom(t, i + 1, cur)
            ELSE <<cur>> \o SplitFrom(t, i + 1, <<>>)
       ELSE SplitFrom(t, i + 1, Append(cur, t[i]))

splitWords(t) == SplitFrom(t, 1, <<>>)

\* words of the karaoke loop: text.replace(/<[^>]*>/g, '').split(/\s+/)
words(t) == splitWords(stripSSML(t))

RECURSIVE TrimLeft(_)
TrimLeft(t) == IF t # <<>> /\ Head(t) = " " THEN TrimLeft(Tail(t)) ELSE t

RECURSIVE TrimRight(_)
TrimRight(t) ==
  IF t # <<>> /\ t[Len(t)] = " " THEN TrimRight(SubSeq(t, 1, Len(t) - 1)) ELSE t

\* text.trim()
trim(t) == TrimRight(TrimLeft(t))

\* ------------------------------------------------------------------ base64
\* A base64 character is its 6-bit value 0..63, Pad for "=", Ws for ASCII
\* whitespace.  atob is the forgiving-base64 decode of the HTML standard;
\* "InvalidCharacterError" stands for the DOMException it throws.
RECURSIVE RemoveWs(_)
RemoveWs(b) ==
  IF b = <<>> THEN <<>>
  ELSE IF Head(b) = Ws THEN RemoveWs(Tail(b))
  ELSE <<Head(b)>> \o RemoveWs(Tail(b))

StripPadding(b) ==
  IF Len(b) % 4 = 0 /\ Len(b) > 0 /\ b[Len(b)] = Pad
  THEN IF b[Len(b) - 1] = Pad
       THEN SubSeq(b, 1, Len(b) - 2)
       ELSE SubSeq(b, 1, Len(b) - 1)
  ELSE b

RECURSIVE DecodeGroups(_)
DecodeGroups(b) ==
  IF Len(b) >= 4
  THEN LET v == ((b[1] * 64 + b[2]) * 64 + b[3]) * 64 + b[4]
       IN <<v \div 65536, (v \div 256) % 256, v % 256>>
            \o DecodeGroups(SubSeq(b, 5, Len(b)))
  ELSE IF Len(b) = 3
  THEN LET v == ((b[1] * 64 + b[2]) * 64 + b[3]) \div 4
       IN <<v \div 256, v % 256>>
  ELSE IF Len(b) = 2
  THEN <<(b[1] * 64 + b[2]) \div 16>>
  ELSE <<>>

\* Results of operations that may throw are records: err is "none" or the
\* name of the exception.
atob(b64) ==
  LET s == StripPadding(RemoveWs(b64))
  IN IF Len(s) % 4 = 1 \/ (\E i \in 1..Len(s) : s[i] \notin 0..63)
     THEN [err |-> "InvalidCharacterError", val |-> <<>>]
     ELSE [err |-> "none", val |-> DecodeGroups(s)]

\* decodeBase64: atob, then one byte per character code.
decodeBase64(b64) ==
  LET binaryString == atob(b64)
  IN IF binaryString.err # "none"
     THEN binaryString
     ELSE [err |-> "none",
           val |-> [i \in 1..Len(binaryString.val) |-> binaryString.val[i]]]

\* -------------------------------------------------------------- PCM decode
\* An AudioBuffer is [sampleRate, numberOfChannels, length, channelData];
\* channelData[ch][i] is the numerator over Den of sample i of channel ch.
NoBuffer == [sampleRate |-> 0, numberOfChannels |-> 0, length |-> 0,
             channelData |-> <<>>]

\* Variant reading the high byte first.
Int16AtBigEndian(data, k) ==
  LET u == 256 * data[2 * k + 1] + data[2 * k + 2]
  IN IF u >= 32768 THEN u - 65536 ELSE u

\* Element k (from 0) of new Int16Array(data.buffer): little-endian signed.
Int16At(data, k) ==
  LET u == data[2 * k + 1] + 256 * data[2 * k + 2]
  IN IF u >= 32768 THEN u - 65536 ELSE u

\* pcmToAudioBuffer(data, audioContext, sampleRate, numChannels).  The
\* Int16Array constructor throws RangeError on an odd byte length;
\* createBuffer takes the frame count as an unsigned long (fraction dropped)
\* and throws NotSupportedError when it is 0.  The loops run i over every
\* integer below dataInt16.length / numChannels; a store beyond the channel
\* array, or of an undefined element, is dropped by the typed array.
pcmToAudioBuffer(data, sampleRate, numChannels) ==
  IF Len(data) % 2 # 0
  THEN [err |-> "RangeError", buffer |-> NoBuffer]
  ELSE LET n == Len(data) \div 2
           frameCount == n \div numChannels
       IN IF frameCount = 0
          THEN [err |-> "NotSupportedError", buffer |-> NoBuffer]
          ELSE [err |-> "none",
                buffer |->
                  [sampleRate |-> sampleRate,
                   numberOfChannels |-> numChannels,
                   length |-> frameCount,
                   channelData |->
                     [channel \in 1..numChannels |->
                       [i \in 1..frameCount |->
                         (Int16At(data, (i - 1) * numChannels + (channel - 1))
                            * Den) \div 32768]]]]

\* The part of synthesizeSpeech after the request: a chunk of the stream is
\* its base64 string inlineData.data; the empty string stands for a chunk
\* without inlineData as well, both being falsy and skipped.
NoData == <<>>

RECURSIVE CollectChunks(_)
CollectChunks(stream) ==
  IF stream = <<>> THEN [err |-> "none", chunks |-> <<>>]
  ELSE IF Head(stream) = NoData
  THEN CollectChunks(Tail(stream))
  ELSE LET d == decodeBase64(Head(stream))
           rest == CollectChunks(Tail(stream))
       IN IF d.err # "none" THEN [err |-> d.err, chunks |-> <<>>]
          ELSE IF rest.err # "none" THEN rest
          ELSE [err |-> "none", chunks |-> <<d.val>> \o rest.chunks]

\* Concatenation loop of synthesizeSpeech: combinedBytes.set(chunk, offset).
\* for (const chunk of chunks) { combinedBytes.set(chunk, offset);
\*                               offset += chunk.length; }
RECURSIVE SetChunks(_, _, _)
SetChunks(buf, chunks, offset) ==
  IF chunks = <<>> THEN buf
  ELSE LET chunk == Head(chunks)
       IN SetChunks([k \in 1..Len(buf) |->
                       IF k > offset /\ k <= offset + Len(chunk)
                       THEN chunk[k - offset] ELSE buf[k]],
                    Tail(chunks), offset + Len(chunk))

\* Variant writing the chunks last to first.
combinedBytesLastFirst(chunks) ==
  LET totalLength == SumLen(chunks)
      n == Len(chunks)
  IN SetChunks([k \in 1..totalLength |-> 0],
               [j \in 1..n |-> chunks[n + 1 - j]], 0)

\* totalLength = chunks.reduce((acc, c) => acc + c.length, 0);
\* combinedBytes = new Uint8Array(totalLength), filled by the loop.
combinedBytes(chunks) ==
  LET totalLength == SumLen(chunks)
  IN SetChunks([k \in 1..totalLength |-> 0], chunks, 0)

\* The byte array synthesizeSpeech hands to pcmToAudioBuffer; empty when it
\* throws before building one.
synthesizeSpeechBytes(stream) ==
  LET c == CollectChunks(stream)
  IN IF c.err # "none" \/ Len(c.chunks) = 0 THEN <<>>
     ELSE combinedBytes(c.chunks)

\* Variant without the chunks.length === 0 check.
synthesizeSpeechUnchecked(stream) ==
  LET c == CollectChunks(stream)
  IN IF c.err # "none" THEN [err |-> c.err, buffer |-> NoBuffer]
     ELSE pcmToAudioBuffer(combinedBytes(c.chunks), CtxSampleRate, 1)

synthesizeSpeech(stream) ==
  LET c == CollectChunks(stream)
  IN IF c.err # "none" THEN [err |-> c.err, buffer |-> NoBuffer]
     ELSE IF Len(c.chunks) = 0
     THEN [err |-> "No audio data generated", buffer |-> NoBuffer]
     ELSE pcmToAudioBuffer(combinedBytes(c.chunks), CtxSampleRate, 1)

\* -------------------------------------------------------------- WAV encode
U16LE(x) == LET u == x % 65536 IN <<u % 256, u \div 256>>
U32LE(x) ==
  <<x % 256, (x \div 256) % 256, (x \div 65536) % 256, (x \div 16777216) % 256>>
\* DataView.setInt16: ToInt16 drops the fraction and wraps modulo 2^16.
Int16LE(x) == U16LE(x)

RIFF == <<82, 73, 70, 70>>
WAVE == <<87, 65, 86, 69>>
FMT == <<102, 109, 116, 32>>
DATA == <<100, 97, 116, 97>>

\* const s = Math.max(-1, Math.min(1, sample))
clampSample(sample) == Max(0 - Den, Min(Den, sample))

\* Variant scaling both signs by 0x7FFF.
scaleSampleSymmetric(sample) ==
  LET s == clampSample(sample) IN TruncDiv(s * 32767, Den)

\* Variant scaling both signs by 0x8000.
scaleSampleBy32768(sample) ==
  LET s == clampSample(sample) IN TruncDiv(s, Den \div 32768)

\* The number handed to setInt16, fraction dropped:
\* s < 0 ? s * 0x8000 : s * 0x7FFF
scaleSample(sample) ==
  LET s == clampSample(sample)
  IN IF s < 0 THEN TruncDiv(s * 32768, Den) ELSE TruncDiv(s * 32767, Den)

\* The signed 16-bit value stored for a sample.
quantize(sample) == ((scaleSample(sample) + 32768) % 65536) - 32768

\* One write into the DataView: bytes bs at byte offset off.
RECURSIVE ApplyWrites(_, _)
ApplyWrites(view, writes) ==
  IF writes = <<>> THEN [err |-> "none", bytes |-> view]
  ELSE LET w == Head(writes)
       IN IF w.off + Len(w.bs) > Len(view)
          THEN [err |-> "RangeError", bytes |-> <<>>]
          ELSE ApplyWrites(
                 [k \in 1..Len(view) |->
                    IF k > w.off /\ k <= w.off + Len(w.bs)
                    THEN w.bs[k - w.off] ELSE view[k]],
                 Tail(writes))

HeaderWrites(numChannels, sampleRate, length) ==
  << [off |-> 0, bs |-> RIFF],
     [off |-> 4, bs |-> U32LE(36 + length)],
     [off |-> 8, bs |-> WAVE],
     [off |-> 12, bs |-> FMT],
     [off |-> 16, bs |-> U32LE(16)],
     [off |-> 20, bs |-> U16LE(1)],
     [off |-> 22, bs |-> U16LE(numChannels)],
     [off |-> 24, bs |-> U32LE(sampleRate)],
     [off |-> 28, bs |-> U32LE(sampleRate * numChannels * 2)],
     [off |-> 32, bs |-> U16LE(numChannels * 2)],
     [off |-> 34, bs |-> U16LE(16)],
     [off |-> 36, bs |-> DATA],
     [off |-> 40, bs |-> U32LE(length)] >>

\* Variant writing the channels one after the other (planar layout).
SampleWritesPlanar(buffer) ==
  [j \in 1..(buffer.length * buffer.numberOfChannels) |->
     LET ch == (j - 1) \div buffer.length
         i == (j - 1) % buffer.length
     IN [off |-> 44 + 2 * (j - 1),
         bs |-> Int16LE(quantize(buffer.channelData[ch + 1][i + 1]))]]

\* The nested sample loop: frame i outermost, channel ch innermost,
\* offset advancing by 2 per sample.
SampleWrites(buffer) ==
  [j \in 1..(buffer.length * buffer.numberOfChannels) |->
     LET i == (j - 1) \div buffer.numberOfChannels
         ch == (j - 1) % buffer.numberOfChannels
     IN [off |-> 44 + 2 * (j - 1),
         bs |-> Int16LE(quantize(buffer.channelData[ch + 1][i + 1]))]]

\* Variant sizing the data chunk for one channel.
wavDataLengthMono(buffer) == buffer.length * 2

wavDataLength(buffer) == buffer.length * buffer.numberOfChannels * 2

\* The worker's sample loop: one channel, offset advancing by 2 per sample.
\* Variant scaling both signs by 0x7FFF.
workerSampleWritesSymmetric(samples) ==
  [i \in 1..Len(samples) |->
     [off |-> 44 + 2 * (i - 1),
      bs |-> Int16LE(((scaleSampleSymmetric(samples[i]) + 32768) % 65536)
                       - 32768)]]

workerSampleWrites(samples) ==
  [i \in 1..Len(samples) |->
     [off |-> 44 + 2 * (i - 1), bs |-> Int16LE(quantize(samples[i]))]]

\* encodeWAV(samples, sampleRate) of the worker script: numChannels = 1.
encodeWAV(samples, sampleRate) ==
  LET length == Len(samples) * 1 * 2
      view == [k \in 1..(44 + length) |-> 0]
  IN ApplyWrites(view,
       HeaderWrites(1, sampleRate, length) \o workerSampleWrites(samples))

audioBufferToWav(buffer) ==
  LET length == wavDataLength(buffer)
      view == [k \in 1..(44 + length) |-> 0]
  IN ApplyWrites(view,
       HeaderWrites(buffer.numberOfChannels, buffer.sampleRate, length)
         \o SampleWrites(buffer))

\* ------------------------------------------------------------ codec inputs
\* Every buffer the session encodes was created by the 24 kHz context.
\* Samples: -2.0, -1.0, -3/65536, 0.5, 1.0, 1.5.
\* Sample rates posted to the worker: the context's and its double.
WorkerSampleRates == {CtxSampleRate, 2 * CtxSampleRate}
SampleVals == {0 - 2 * Den, 0 - Den, 0 - 3, Den \div 2, Den, Den + Den \div 2}
ByteVals == {0, 127, 128, 255}
DecodeChannels == {1, 2}

\* "AIA=" (bytes 00 80), "/38=" (bytes FF 7F), "AQ==" (byte 01),
\* "AQAA" (bytes 01 00 00), " " (whitespace only), "=" (not base64).
B64MinSample == <<0, 8, 0, Pad>>
B64MaxSample == <<63, 55, 60, Pad>>
B64OneByte == <<0, 16, Pad, Pad>>
B64ThreeBytes == <<0, 16, 0, 0>>
B64Blank == <<Ws>>
B64Invalid == <<Pad>>
Payloads == {NoData, B64MinSample, B64MaxSample, B64OneByte, B64ThreeBytes,
             B64Blank, B64Invalid}

\* ------------------------------------------------------------------- state
VARIABLES
  layout,             \* "dashboard": src/App.tsx; "overlay": src/unnamed/part_000
  text, playbackRate, pitchShift, emphasis,       \* useState
  processing, isApiConnected, history,            \* useState
  audioContext, sourceNode, filterNode,           \* useState, 0 for null
  isPlaying, audioBuffer, currentWordIndex,       \* useState
  elapsed,            \* audioContext.currentTime - elapsed.current
  animationFrameRef,  \* useRef
  karaokeDeps, paramDeps,   \* dependency values of the last run of each effect
  contexts,           \* number of AudioContexts constructed
  filters,            \* BiquadFilterNodes, by id
  sources,            \* started AudioBufferSourceNodes, by id
  frames,             \* requested animation frames not yet run or cancelled
  synthTasks,         \* handleSynthesis calls suspended at an await
  optTasks,           \* handleOptimization calls suspended at their await
  timers,             \* pending setTimeout callbacks of handleOptimization
  restoreTasks,       \* restoreHistoryItem calls suspended at their awaits
  historyStore,       \* records held by the history service
  uncaught,           \* the last exception that escaped an event handler
  consoleError,       \* the last error a catch block passed to console.error
  alertMessage,       \* the last message shown by alert()
  nOps,               \* user gestures handled so far
  codecIn, codecOut   \* input and result of SpecCodec

session == <<text, playbackRate, pitchShift, emphasis, processing,
             isApiConnected, history, audioContext, sourceNode, filterNode,
             isPlaying, audioBuffer, currentWordIndex>>
refs == <<elapsed, animationFrameRef>>
effects == <<karaokeDeps, paramDeps>>
platform == <<contexts, filters, sources, frames>>
pending == <<synthTasks, optTasks, timers, restoreTasks>>
errs == <<uncaught, consoleError, alertMessage>>
counters == <<nOps>>
codec == <<codecIn, codecOut>>
vars == <<layout, session, refs, effects, platform, pending, historyStore,
          errs, counters, codec>>

Rates == {5, 10}
Pitches == {0, 50}
Gains == {0, 5}

Streams == {<<>>, <<B64Blank>>, <<B64OneByte>>, <<B64ThreeBytes, B64OneByte>>}

NoTick == [elapsed |-> 0, words |-> 0, bufferDuration |-> 0, rate |-> 0]
IdleCodecIn == [kind |-> "none", buffer |-> NoBuffer, stream |-> <<>>,
                bytes |-> <<>>, channels |-> 0, tick |-> NoTick]
IdleCodecOut == [done |-> FALSE, err |-> "none", bytes |-> <<>>,
                 buffer |-> NoBuffer, index |-> 0 - 1]

\* Variant whose status message is not empty.
KeptProcessing == [isThinking |-> FALSE, isSynthesizing |-> FALSE,
                   progress |-> 0, statusMessage |-> "Optimization Complete"]

IdleProcessing == [isThinking |-> FALSE, isSynthesizing |-> FALSE,
                   progress |-> 0, statusMessage |-> ""]

KaraokeDeps == <<isPlaying, audioContext, audioBuffer, text, playbackRate>>
ParamDeps == <<playbackRate, pitchShift, emphasis, sourceNode, filterNode>>

\* An effect is pending from the commit that changed one of its
\* dependencies until React has run it.
EffectsPending == karaokeDeps # KaraokeDeps \/ paramDeps # ParamDeps

\* State after the component has mounted and its effects have run: the
\* parameter effect finds no node, the karaoke effect took its else branch
\* (cancelAnimationFrame(0), setCurrentWordIndex(-1)), loadHistory has read
\* the empty store.
SessionInit ==
  /\ text = TextEmpty
  /\ playbackRate = 10
  /\ pitchShift = 0
  /\ emphasis = 0
  /\ processing = IdleProcessing
  /\ isApiConnected = FALSE
  /\ history = <<>>
  /\ audioContext = 0
  /\ sourceNode = 0
  /\ filterNode = 0
  /\ isPlaying = FALSE
  /\ audioBuffer = NoBuffer
  /\ currentWordIndex = -1
  /\ elapsed = 0
  /\ animationFrameRef = 0
  /\ karaokeDeps = <<FALSE, 0, NoBuffer, TextEmpty, 10>>
  /\ paramDeps = <<10, 0, 0, 0, 0>>
  /\ contexts = 0
  /\ filters = <<>>
  /\ sources = <<>>
  /\ frames = {}
  /\ synthTasks = <<>>
  /\ optTasks = <<>>
  /\ timers = 0
  /\ restoreTasks = <<>>
  /\ historyStore = <<>>
  /\ uncaught = "none"
  /\ consoleError = "none"
  /\ alertMessage = "none"
  /\ nOps = 0

Init ==
  /\ layout = "dashboard"
  /\ SessionInit
  /\ codecIn = IdleCodecIn
  /\ codecOut = IdleCodecOut

\* ---------------------------------------------------------------- platform
RemoveAt(q, i) == SubSeq(q, 1, i - 1) \o SubSeq(q, i + 1, Len(q))

\* ctx.createBiquadFilter() configured as initAudio and playAudio do.
NewFilter(ctx) == [ctx |-> ctx, type |-> "peaking",
                   frequency |-> FilterFrequency, Q |-> FilterQ, gain |-> 0]

\* try { sourceNode.stop(); } catch(e) {} on node s (0 for null): a playing
\* source stops and its ended event is queued; on any other source the call
\* changes nothing, whether or not the platform throws.
stop(srcs, s) ==
  IF s = 0 THEN srcs
  ELSE [srcs EXCEPT ![s].st = IF @ = "playing" THEN "ending" ELSE @,
                    ![s].stopped = TRUE]

\* Whether stop() on node s may throw InvalidStateError: webkitAudioContext
\* implementations do for a source that has already stopped or finished.
stopMayThrow(srcs, s) == s # 0 /\ srcs[s].st # "playing"

\* Variant without source.buffer = buffer.
playAudioUnbound(c, buffer, ctx) ==
  IF buffer = NoBuffer \/ ctx = 0
  THEN [ran |-> FALSE, threw |-> FALSE, sources |-> sources,
        filters |-> filters, newFilter |-> 0, source |-> 0]
  ELSE LET stopped == stop(sources, c.sourceNode)
           fs == IF c.filterNode = 0 THEN Append(filters, NewFilter(ctx))
                 ELSE filters
           filter == IF c.filterNode = 0 THEN Len(fs) ELSE c.filterNode
           created == IF c.filterNode = 0 THEN filter ELSE 0
       IN IF fs[filter].ctx # ctx
          THEN [ran |-> TRUE, threw |-> TRUE, sources |-> stopped,
                filters |-> fs, newFilter |-> created, source |-> 0]
          ELSE [ran |-> TRUE, threw |-> FALSE,
                sources |-> Append(stopped,
                  [buffer |-> NoBuffer, playbackRate |-> c.playbackRate,
                   detune |-> c.pitchShift, filter |-> filter, ctx |-> ctx,
                   st |-> "playing", stopped |-> FALSE]),
                filters |-> fs, newFilter |-> created,
                source |-> Len(stopped) + 1]

\* playAudio(buffer, ctx) run in a render whose sourceNode, filterNode,
\* playbackRate and pitchShift are c's.  connect() throws InvalidAccessError
\* when the filter belongs to another AudioContext; nothing after it runs.
playAudio(c, buffer, ctx) ==
  IF buffer = NoBuffer \/ ctx = 0
  THEN [ran |-> FALSE, threw |-> FALSE, sources |-> sources,
        filters |-> filters, newFilter |-> 0, source |-> 0]
  ELSE LET stopped == stop(sources, c.sourceNode)
           fs == IF c.filterNode = 0 THEN Append(filters, NewFilter(ctx))
                 ELSE filters
           filter == IF c.filterNode = 0 THEN Len(fs) ELSE c.filterNode
           created == IF c.filterNode = 0 THEN filter ELSE 0
       IN IF fs[filter].ctx # ctx
          THEN [ran |-> TRUE, threw |-> TRUE, sources |-> stopped,
                filters |-> fs, newFilter |-> created, source |-> 0]
          ELSE [ran |-> TRUE, threw |-> FALSE,
                sources |-> Append(stopped,
                  [buffer |-> buffer, playbackRate |-> c.playbackRate,
                   detune |-> c.pitchShift, filter |-> filter, ctx |-> ctx,
                   st |-> "playing", stopped |-> FALSE]),
                filters |-> fs, newFilter |-> created,
                source |-> Len(stopped) + 1]

\* The values a handler closes over in the render it was created in.
Closure == [text |-> text, sourceNode |-> sourceNode,
            filterNode |-> filterNode, audioContext |-> audioContext,
            playbackRate |-> playbackRate, pitchShift |-> pitchShift]

\* audioContext.decodeAudioData on a blob written by audioBufferToWav: the
\* 16-bit samples of the data chunk, each divided by 32768.
decodeAudioData(bytes) ==
  LET numChannels == bytes[23] + 256 * bytes[24]
      sampleRate == bytes[25] + 256 * bytes[26] + 65536 * bytes[27]
                      + 16777216 * bytes[28]
      data == SubSeq(bytes, 45, Len(bytes))
      frameCount == (Len(data) \div 2) \div numChannels
  IN [sampleRate |-> sampleRate, numberOfChannels |-> numChannels,
      length |-> frameCount,
      channelData |->
        [channel \in 1..numChannels |->
          [i \in 1..frameCount |->
            (Int16At(data, (i - 1) * numChannels + (channel - 1)) * Den)
               \div 32768]]]

\* requestAnimationFrame returns a handle no pending frame has.  Both call
\* sites store the handle in animationFrameRef.current at once, so a handle
\* is only ever compared with that of the newest request: the smallest free
\* one stands for it.
NewFrameId(frs) ==
  CHOOSE i \in 1..(Cardinality(frs) + 1) :
    /\ i \notin {f.id : f \in frs}
    /\ \A j \in 1..(i - 1) : j \in {f.id : f \in frs}

\* Variant that cancels nothing: an effect without its cleanup.
cancelNothing(frs, id) == frs

cancelAnimationFrame(frs, id) == {f \in frs : f.id # id}

\* ------------------------------------------------------------ user actions
\* Every user gesture other than connecting the API key counts against the
\* budget MaxOps.
Gesture == nOps < MaxOps /\ nOps' = nOps + 1

handleConnectApi ==
  /\ ~EffectsPending
  /\ ~isApiConnected
  /\ isApiConnected' = TRUE
  /\ UNCHANGED <<layout, text, playbackRate, pitchShift, emphasis, processing,
                 history, audioContext, sourceNode, filterNode, isPlaying,
                 audioBuffer, currentWordIndex, refs, effects, platform,
                 pending, historyStore, errs, counters, codec>>

\* The disconnect button, rendered while connected.
handleDisconnectApi ==
  /\ ~EffectsPending
  /\ isApiConnected
  /\ Gesture
  /\ isApiConnected' = FALSE
  /\ UNCHANGED <<layout, text, playbackRate, pitchShift, emphasis, processing,
                 history, audioContext, sourceNode, filterNode, isPlaying,
                 audioBuffer, currentWordIndex, refs, effects, platform,
                 pending, historyStore, errs, codec>>

\* The textarea (rendered while not playing) and the Load Random Sample
\* button (disabled while playing).
textChange(t) ==
  /\ ~EffectsPending
  /\ ~isPlaying
  /\ t # text
  /\ text' = t
  /\ UNCHANGED <<layout, playbackRate, pitchShift, emphasis, processing,
                 isApiConnected, history, audioContext, sourceNode,
                 filterNode, isPlaying, audioBuffer, currentWordIndex, refs,
                 effects, platform, pending, historyStore, errs,
                 codec>>

setText(t) == Gesture /\ textChange(t)

\* The same edit without counting against the gesture budget: the texts it
\* can reach are bounded by Texts.
typeText(t) == UNCHANGED nOps /\ textChange(t)

\* onChange of the Speed slider.
playbackRateChange(r) ==
  /\ ~EffectsPending
  /\ r # playbackRate
  /\ playbackRate' = r
  /\ UNCHANGED <<layout, text, pitchShift, emphasis, processing,
                 isApiConnected, history, audioContext, sourceNode,
                 filterNode, isPlaying, audioBuffer, currentWordIndex, refs,
                 effects, platform, pending, historyStore, errs,
                 codec>>

setPlaybackRate(r) == Gesture /\ playbackRateChange(r)

\* The same slider moved without counting against the gesture budget: the
\* rates it can reach are bounded by Rates.
slidePlaybackRate(r) == UNCHANGED nOps /\ playbackRateChange(r)

setPitchShift(p) ==
  /\ ~EffectsPending
  /\ p # pitchShift
  /\ Gesture
  /\ pitchShift' = p
  /\ UNCHANGED <<layout, text, playbackRate, emphasis, processing,
                 isApiConnected, history, audioContext, sourceNode,
                 filterNode, isPlaying, audioBuffer, currentWordIndex, refs,
                 effects, platform, pending, historyStore, errs,
                 codec>>

setEmphasis(g) ==
  /\ ~EffectsPending
  /\ g # emphasis
  /\ Gesture
  /\ emphasis' = g
  /\ UNCHANGED <<layout, text, playbackRate, pitchShift, processing,
                 isApiConnected, history, audioContext, sourceNode,
                 filterNode, isPlaying, audioBuffer, currentWordIndex, refs,
                 effects, platform, pending, historyStore, errs,
                 codec>>

\* initAudio(): the filters after the call; a context and its filter are
\* constructed only when the render's audioContext is null.
initAudioFilters == IF audioContext = 0
                    THEN Append(filters, NewFilter(contexts + 1))
                    ELSE filters

\* The Polish (deep = FALSE) and Smart SSML (deep = TRUE) buttons, disabled
\* while thinking, synthesizing or playing.  Up to the await.
handleOptimization(deep) ==
  /\ ~EffectsPending
  /\ Gesture
  /\ ~processing.isThinking /\ ~processing.isSynthesizing /\ ~isPlaying
  /\ IF ~isApiConnected
     THEN /\ alertMessage' = "Please connect your Gemini API Key below first."
          /\ UNCHANGED <<processing, audioContext, filterNode, contexts,
                         filters, optTasks>>
     ELSE /\ trim(text) # <<>>
          /\ UNCHANGED alertMessage
          /\ filters' = initAudioFilters
          /\ contexts' = IF audioContext = 0 THEN contexts + 1 ELSE contexts
          /\ audioContext' = IF audioContext = 0 THEN contexts + 1
                             ELSE audioContext
          /\ filterNode' = IF audioContext = 0 THEN Len(filters) + 1
                           ELSE filterNode
          /\ processing' = [isThinking |-> TRUE, isSynthesizing |-> FALSE,
                            progress |-> 30,
                            statusMessage |->
                              IF deep THEN "Thinking Protocol Active..."
                              ELSE "Polishing..."]
          /\ optTasks' = Append(optTasks, [text |-> text])
  /\ UNCHANGED <<layout, text, playbackRate, pitchShift, emphasis,
                 isApiConnected, history, sourceNode, isPlaying, audioBuffer,
                 currentWordIndex, refs, effects, sources, frames,
                 synthTasks, timers, restoreTasks, historyStore, uncaught,
                 consoleError, codec>>

\* The request resolves with response.text?.trim() || text; the timer that
\* clears the status is armed.
optimizationResolve(i, optimized) ==
  /\ ~EffectsPending
  /\ i \in 1..Len(optTasks)
  /\ optimized = optTasks[i].text \/ (trim(optimized) = optimized
                                       /\ optimized # <<>>)
  /\ text' = optimized
  /\ processing' = [processing EXCEPT !.isThinking = FALSE,
                                      !.progress = 100,
                                      !.statusMessage = "Optimization Complete"]
  /\ timers' = timers + 1
  /\ optTasks' = RemoveAt(optTasks, i)
  /\ UNCHANGED <<layout, playbackRate, pitchShift, emphasis, isApiConnected,
                 history, audioContext, sourceNode, filterNode, isPlaying,
                 audioBuffer, currentWordIndex, refs, effects, platform,
                 synthTasks, restoreTasks, historyStore, errs,
                 counters, codec>>

optimizationReject(i) ==
  /\ ~EffectsPending
  /\ i \in 1..Len(optTasks)
  /\ processing' = [isThinking |-> FALSE, isSynthesizing |-> FALSE,
                    progress |-> 0, statusMessage |-> "Optimization Failed"]
  /\ optTasks' = RemoveAt(optTasks, i)
  /\ consoleError' = "request failed"
  /\ UNCHANGED <<layout, text, playbackRate, pitchShift, emphasis,
                 isApiConnected, history, audioContext, sourceNode,
                 filterNode, isPlaying, audioBuffer, currentWordIndex, refs,
                 effects, platform, synthTasks, timers, restoreTasks,
                 historyStore, uncaught, alertMessage, counters, codec>>

\* setTimeout(() => setProcessing({... statusMessage: ''}), 2000)
optimizationTimer ==
  /\ ~EffectsPending
  /\ timers > 0
  /\ timers' = timers - 1
  /\ processing' = IdleProcessing
  /\ UNCHANGED <<layout, text, playbackRate, pitchShift, emphasis,
                 isApiConnected, history, audioContext, sourceNode,
                 filterNode, isPlaying, audioBuffer, currentWordIndex, refs,
                 effects, platform, synthTasks, optTasks, restoreTasks,
                 historyStore, errs, counters, codec>>

\* Variant that never finds the credential missing.
CredentialAssumed == FALSE

\* if (!isApiConnected) { alert(...); return; }
CredentialMissing == ~isApiConnected

\* The synthesize button: rendered (dashboard) or enabled (overlay) only
\* while not playing, disabled while the text is blank or isSynthesizing.
\* Up to the await of synthesizeSpeech: initAudio, stop of the render's
\* source, and ctx = audioContext || new AudioContext(), which constructs a
\* second context when the render's audioContext is null.
handleSynthesis ==
  /\ ~EffectsPending
  /\ Gesture
  /\ ~isPlaying /\ trim(text) # <<>> /\ ~processing.isSynthesizing
  /\ IF CredentialMissing
     THEN /\ alertMessage' = "Please connect your Gemini API Key first."
          /\ UNCHANGED <<processing, audioContext, filterNode, isPlaying,
                         contexts, filters, sources, synthTasks>>
     ELSE /\ UNCHANGED alertMessage
          /\ filters' = initAudioFilters
          /\ contexts' = IF audioContext = 0 THEN contexts + 2 ELSE contexts
          /\ audioContext' = IF audioContext = 0 THEN contexts + 2
                             ELSE audioContext
          /\ filterNode' = IF audioContext = 0 THEN Len(filters) + 1
                           ELSE filterNode
          /\ sources' = stop(sources, sourceNode)
          /\ isPlaying' = FALSE
          /\ processing' = [isThinking |-> FALSE, isSynthesizing |-> TRUE,
                            progress |-> 50,
                            statusMessage |-> "Synthesizing Audio..."]
          /\ synthTasks' = Append(synthTasks,
               [stage |-> "request", c |-> Closure,
                ctx |-> IF audioContext = 0 THEN contexts + 2
                        ELSE audioContext,
                buffer |-> NoBuffer])
  /\ UNCHANGED <<layout, text, playbackRate, pitchShift, emphasis,
                 isApiConnected, history, sourceNode, audioBuffer,
                 currentWordIndex, refs, effects, frames, optTasks,
                 timers, restoreTasks, historyStore, uncaught, consoleError,
                 codec>>

\* services/historyService: the store keeps the saved records in order.
saveHistoryItem(store, item) == Append(store, item)
getHistoryItems(store) == store

\* Variant of the catch block that leaves the synthesizing flag set.
SynthesisFailedFlagKept == [isThinking |-> FALSE, isSynthesizing |-> TRUE,
                           progress |-> 0,
                           statusMessage |-> "Synthesis Failed"]

SynthesisFailed == [isThinking |-> FALSE, isSynthesizing |-> FALSE,
                    progress |-> 0, statusMessage |-> "Synthesis Failed"]

\* Variant storing the text with its tags as originalText.
NewItemUnstripped(c, buffer) ==
  [text |-> c.text, originalText |-> c.text,
   audioBlob |-> audioBufferToWav(buffer).bytes]

\* The HistoryItem built by handleSynthesis (id, emotion, voice and
\* timestamp are not modelled).
NewItem(c, buffer) == [text |-> c.text, originalText |-> stripSSML(c.text),
                       audioBlob |-> audioBufferToWav(buffer).bytes]

\* synthesizeSpeech settles on the fragment stream received.  On success:
\* setAudioBuffer, the WAV blob, saveHistoryItem(newItem) and its await.
\* On an exception: the catch block.
synthesisSettle(i, stream) ==
  /\ ~EffectsPending
  /\ i \in 1..Len(synthTasks)
  /\ synthTasks[i].stage = "request"
  /\ LET r == synthesizeSpeech(stream)
     IN IF r.err # "none"
        THEN /\ processing' = SynthesisFailed
             /\ synthTasks' = RemoveAt(synthTasks, i)
             /\ consoleError' = r.err
             /\ UNCHANGED <<audioBuffer, historyStore>>
        ELSE /\ audioBuffer' = r.buffer
             /\ historyStore' =
                  saveHistoryItem(historyStore,
                                  NewItem(synthTasks[i].c, r.buffer))
             /\ synthTasks' = [synthTasks EXCEPT ![i].stage = "save",
                                                 ![i].buffer = r.buffer]
             /\ UNCHANGED <<processing, consoleError>>
  /\ UNCHANGED <<layout, text, playbackRate, pitchShift, emphasis,
                 isApiConnected, history, audioContext, sourceNode,
                 filterNode, isPlaying, currentWordIndex, refs, effects,
                 platform, optTasks, timers, restoreTasks, uncaught,
                 alertMessage,
                 counters, codec>>

\* generateContentStream itself rejects (network, quota, bad key).
synthesisReject(i) ==
  /\ ~EffectsPending
  /\ i \in 1..Len(synthTasks)
  /\ synthTasks[i].stage = "request"
  /\ processing' = SynthesisFailed
  /\ synthTasks' = RemoveAt(synthTasks, i)
  /\ consoleError' = "request failed"
  /\ UNCHANGED <<layout, text, playbackRate, pitchShift, emphasis,
                 isApiConnected, history, audioContext, sourceNode,
                 filterNode, isPlaying, audioBuffer, currentWordIndex, refs,
                 effects, platform, optTasks, timers, restoreTasks,
                 historyStore, uncaught, alertMessage, counters, codec>>

\* saveHistoryItem resolved: loadHistory(), the "Ready" status and
\* playAudio(buffer, ctx), all with the values of the render the click was
\* handled in; an exception of playAudio lands in the catch block.
synthesisSaved(i) ==
  /\ ~EffectsPending
  /\ i \in 1..Len(synthTasks)
  /\ synthTasks[i].stage = "save"
  /\ LET t == synthTasks[i]
         p == playAudio(t.c, t.buffer, t.ctx)
     IN /\ history' = getHistoryItems(historyStore)
        /\ sources' = p.sources
        /\ filters' = p.filters
        /\ filterNode' = IF p.newFilter # 0 THEN p.newFilter ELSE filterNode
        /\ IF p.threw
           THEN /\ processing' = SynthesisFailed
                /\ consoleError' = "InvalidAccessError"
                /\ UNCHANGED <<sourceNode, isPlaying, elapsed>>
           ELSE /\ p.ran
                /\ processing' = [isThinking |-> FALSE,
                                  isSynthesizing |-> FALSE,
                                  progress |-> 100, statusMessage |-> "Ready"]
                /\ sourceNode' = p.source
                /\ isPlaying' = TRUE
                /\ elapsed' = 0
                /\ UNCHANGED consoleError
  /\ synthTasks' = RemoveAt(synthTasks, i)
  /\ UNCHANGED <<layout, text, playbackRate, pitchShift, emphasis,
                 isApiConnected, audioContext, audioBuffer, currentWordIndex,
                 animationFrameRef, effects, contexts, frames, optTasks,
                 timers, restoreTasks, historyStore, uncaught, alertMessage,
                 counters, codec>>

\* The stop button of the dashboard, rendered while isPlaying.
handleStop ==
  /\ ~EffectsPending
  /\ Gesture
  /\ layout = "dashboard"
  /\ isPlaying
  /\ IF sourceNode # 0
     THEN /\ sources' = stop(sources, sourceNode)
          /\ isPlaying' = FALSE
     ELSE UNCHANGED <<sources, isPlaying>>
  /\ UNCHANGED <<layout, text, playbackRate, pitchShift, emphasis, processing,
                 isApiConnected, history, audioContext, sourceNode,
                 filterNode, audioBuffer, currentWordIndex, refs, effects,
                 contexts, filters, frames, pending, historyStore,
                 errs, codec>>

\* The overlay button while isPlaying: sourceNode?.stop(), outside any try
\* block; whether a second stop throws is the platform's choice.
overlayPause(throws) ==
  /\ ~EffectsPending
  /\ Gesture
  /\ layout = "overlay"
  /\ audioBuffer # NoBuffer
  /\ isPlaying
  /\ throws => stopMayThrow(sources, sourceNode)
  /\ sources' = stop(sources, sourceNode)
  /\ uncaught' = IF throws THEN "InvalidStateError" ELSE uncaught
  /\ UNCHANGED <<consoleError, alertMessage>>
  /\ UNCHANGED <<layout, session, refs, effects, contexts, filters, frames,
                  pending, historyStore, codec>>

\* The overlay button while not playing: playAudio(audioBuffer,
\* audioContext), outside any try block.
overlayPlay ==
  /\ ~EffectsPending
  /\ Gesture
  /\ layout = "overlay"
  /\ audioBuffer # NoBuffer
  /\ ~isPlaying
  /\ LET p == playAudio(Closure, audioBuffer, audioContext)
     IN /\ sources' = p.sources
        /\ filters' = p.filters
        /\ filterNode' = IF p.newFilter # 0 THEN p.newFilter ELSE filterNode
        /\ uncaught' = IF p.threw THEN "InvalidAccessError" ELSE uncaught
        /\ UNCHANGED <<consoleError, alertMessage>>
        /\ IF p.ran /\ ~p.threw
           THEN /\ sourceNode' = p.source
                /\ isPlaying' = TRUE
                /\ elapsed' = 0
           ELSE UNCHANGED <<sourceNode, isPlaying, elapsed>>
  /\ UNCHANGED <<layout, text, playbackRate, pitchShift, emphasis, processing,
                 isApiConnected, history, audioContext, audioBuffer,
                 currentWordIndex, animationFrameRef, effects, contexts,
                 frames, pending, historyStore, codec>>

\* Load button of a history entry, up to the first await.
restoreHistoryItem(k) ==
  /\ ~EffectsPending
  /\ Gesture
  /\ k \in 1..Len(history)
  /\ text' = history[k].text
  /\ restoreTasks' = Append(restoreTasks,
       [item |-> history[k], audioContext |-> audioContext])
  /\ UNCHANGED <<layout, playbackRate, pitchShift, emphasis, processing,
                 isApiConnected, history, audioContext, sourceNode,
                 filterNode, isPlaying, audioBuffer, currentWordIndex, refs,
                 effects, platform, synthTasks, optTasks, timers,
                 historyStore, errs, codec>>

\* arrayBuffer() and decodeAudioData resolved: setAudioBuffer, if the render
\* of the click had an audioContext.
restoreResolve(i) ==
  /\ ~EffectsPending
  /\ i \in 1..Len(restoreTasks)
  /\ audioBuffer' = IF restoreTasks[i].audioContext # 0
                    THEN decodeAudioData(restoreTasks[i].item.audioBlob)
                    ELSE audioBuffer
  /\ restoreTasks' = RemoveAt(restoreTasks, i)
  /\ UNCHANGED <<layout, text, playbackRate, pitchShift, emphasis, processing,
                 isApiConnected, history, audioContext, sourceNode,
                 filterNode, isPlaying, currentWordIndex, refs, effects,
                 platform, synthTasks, optTasks, timers, historyStore, errs, counters, codec>>

\* ---------------------------------------------------------- platform events
\* A playing source reaches the end of its buffer.
naturalEnd(s) ==
  /\ s \in 1..Len(sources)
  /\ sources[s].st = "playing"
  /\ sources' = [sources EXCEPT ![s].st = "ending"]
  /\ UNCHANGED <<layout, session, refs, effects, contexts, filters, frames,
                  pending, historyStore, errs, counters,
                 codec>>

\* The ended event of a stopped or finished source:
\* source.onended = () => setIsPlaying(false)
onended(s) ==
  /\ ~EffectsPending
  /\ s \in 1..Len(sources)
  /\ sources[s].st = "ending"
  /\ sources' = [sources EXCEPT ![s].st = "ended"]
  /\ isPlaying' = FALSE
  /\ UNCHANGED <<layout, text, playbackRate, pitchShift, emphasis, processing,
                 isApiConnected, history, audioContext, sourceNode,
                 filterNode, audioBuffer, currentWordIndex, refs, effects,
                 contexts, filters, frames, pending, historyStore,
                 errs, counters, codec>>

\* Time passes.  The program reads the clock only in updateKaraoke, as
\* currentTime - elapsed.current, and a tick past the end of its
\* playback reports the end whatever the time: time is followed while some
\* requested frame is still short of its end.
advanceClock ==
  /\ \E f \in frames : elapsed * f.rate < 10 * f.bufferDuration
  /\ elapsed' = elapsed + 1
  /\ UNCHANGED <<layout, session, animationFrameRef, effects, platform,
                 pending, historyStore, errs, counters, codec>>

\* ----------------------------------------------------------------- karaoke
\* A frame carries what updateKaraoke closes over: words.length and
\* duration = audioBuffer.duration / playbackRate, kept as its two operands.
\* elapsed / duration = elapsed * rate / (10 * bufferDuration).
\* Variant without Math.min(1, ...).
karaokeIndexUnclamped(e, f) ==
  (e * f.rate * f.words) \div (10 * f.bufferDuration)

\* progress = Math.min(1, elapsed / duration);
\* index = Math.floor(progress * words.length), at elapsed time e.
karaokeIndexAt(e, f) ==
  IF e * f.rate >= 10 * f.bufferDuration
  THEN f.words
  ELSE (e * f.rate * f.words) \div (10 * f.bufferDuration)

karaokeIndex(f) == karaokeIndexAt(elapsed, f)

\* Variant requesting the next frame on every tick.
BeforeEndAlways(f) == TRUE

\* if (elapsed < duration), with duration = bufferDuration / rate
BeforeEnd(f) == elapsed * f.rate < 10 * f.bufferDuration

\* The browser runs the requested frame with handle h: updateKaraoke.
updateKaraoke(h) ==
  /\ \E g \in frames : g.id = h
  /\ LET f == CHOOSE g \in frames : g.id = h
         id == NewFrameId(frames \ {f})
     IN /\ currentWordIndex' = karaokeIndex(f)
        /\ IF BeforeEnd(f)
           THEN /\ frames' = (frames \ {f}) \cup {[f EXCEPT !.id = id]}
                /\ animationFrameRef' = id
           ELSE /\ frames' = frames \ {f}
                /\ UNCHANGED animationFrameRef
  /\ UNCHANGED <<layout, text, playbackRate, pitchShift, emphasis, processing,
                 isApiConnected, history, audioContext, sourceNode,
                 filterNode, isPlaying, audioBuffer, elapsed, effects,
                 contexts, filters, sources, pending, historyStore,
                 errs, counters, codec>>

\* ----------------------------------------------------------------- effects
\* Variant leaving a source as playAudio configured it.
paramEffectSkipped(srcs) == srcs

\* "Update Audio Params in Real-time"
paramEffect(srcs) ==
  IF sourceNode # 0
  THEN [srcs EXCEPT ![sourceNode].playbackRate = playbackRate,
                    ![sourceNode].detune = pitchShift]
  ELSE srcs

paramEffectFilters(fs) ==
  IF filterNode # 0 THEN [fs EXCEPT ![filterNode].gain = emphasis] ELSE fs

\* duration of an AudioBuffer in sample periods of the context
BufferDuration(b) == (b.length * CtxSampleRate) \div b.sampleRate

\* React runs the effects whose dependencies changed in the last commit:
\* the cleanup of the previous karaoke effect, then the effect bodies.
runEffects ==
  /\ EffectsPending
  /\ IF paramDeps # ParamDeps
     THEN /\ sources' = paramEffect(sources)
          /\ filters' = paramEffectFilters(filters)
     ELSE UNCHANGED <<sources, filters>>
  /\ IF karaokeDeps # KaraokeDeps
     THEN LET cleaned == cancelAnimationFrame(frames, animationFrameRef)
          IN IF isPlaying /\ audioBuffer # NoBuffer /\ audioContext # 0
             THEN LET id == NewFrameId(cleaned)
                  IN /\ frames' = cleaned \cup
                          {[id |-> id, words |-> Len(words(text)),
                            bufferDuration |-> BufferDuration(audioBuffer),
                            rate |-> playbackRate]}
                     /\ animationFrameRef' = id
                     /\ UNCHANGED currentWordIndex
             ELSE /\ frames' = cleaned
                  /\ currentWordIndex' = -1
                  /\ UNCHANGED animationFrameRef
     ELSE UNCHANGED <<frames, animationFrameRef, currentWordIndex>>
  /\ karaokeDeps' = KaraokeDeps
  /\ paramDeps' = ParamDeps
  /\ UNCHANGED <<layout, text, playbackRate, pitchShift, emphasis, processing,
                 isApiConnected, history, audioContext, sourceNode,
                 filterNode, isPlaying, audioBuffer, elapsed, contexts,
                  pending, historyStore, errs, counters,
                 codec>>

\* The component of src/App.tsx.
Next ==
  \/ handleConnectApi
  \/ handleDisconnectApi
  \/ \E t \in Texts : setText(t)
  \/ \E r \in Rates : setPlaybackRate(r)
  \/ \E p \in Pitches : setPitchShift(p)
  \/ \E g \in Gains : setEmphasis(g)
  \/ \E deep \in BOOLEAN : handleOptimization(deep)
  \/ \E i \in 1..MaxOps, t \in Texts : optimizationResolve(i, t)
  \/ \E i \in 1..MaxOps : optimizationReject(i)
  \/ optimizationTimer
  \/ handleSynthesis
  \/ \E i \in 1..MaxOps, stream \in Streams : synthesisSettle(i, stream)
  \/ \E i \in 1..MaxOps : synthesisReject(i)
  \/ \E i \in 1..MaxOps : synthesisSaved(i)
  \/ handleStop
  \/ \E k \in 1..MaxOps : restoreHistoryItem(k)
  \/ \E i \in 1..MaxOps : restoreResolve(i)
  \/ \E s \in 1..MaxOps : naturalEnd(s)
  \/ \E s \in 1..MaxOps : onended(s)
  \/ advanceClock
  \/ \E h \in 1..MaxOps : updateKaraoke(h)
  \/ runEffects

Spec == Init /\ [][Next]_vars

\* The component of src/unnamed/part_000.
InitOverlay ==
  /\ layout = "overlay"
  /\ SessionInit
  /\ codecIn = IdleCodecIn
  /\ codecOut = IdleCodecOut

NextOverlay ==
  \/ handleConnectApi
  \/ \E t \in Texts : setText(t)
  \/ \E r \in Rates : setPlaybackRate(r)
  \/ \E p \in Pitches : setPitchShift(p)
  \/ \E g \in Gains : setEmphasis(g)
  \/ \E deep \in BOOLEAN : handleOptimization(deep)
  \/ \E i \in 1..MaxOps, t \in Texts : optimizationResolve(i, t)
  \/ \E i \in 1..MaxOps : optimizationReject(i)
  \/ optimizationTimer
  \/ handleSynthesis
  \/ \E i \in 1..MaxOps, stream \in Streams : synthesisSettle(i, stream)
  \/ \E i \in 1..MaxOps : synthesisReject(i)
  \/ \E i \in 1..MaxOps : synthesisSaved(i)
  \/ \E throws \in BOOLEAN : overlayPause(throws)
  \/ overlayPlay
  \/ \E k \in 1..MaxOps : restoreHistoryItem(k)
  \/ \E i \in 1..MaxOps : restoreResolve(i)
  \/ \E s \in 1..MaxOps : naturalEnd(s)
  \/ \E s \in 1..MaxOps : onended(s)
  \/ advanceClock
  \/ \E h \in 1..MaxOps : updateKaraoke(h)
  \/ runEffects

SpecOverlay == InitOverlay /\ [][NextOverlay]_vars

\* The component of src/App.tsx from the first text to the end of playback:
\* optimization, synthesis and the Speed slider, without stop, history
\* restore and the karaoke frames.
NextParams ==
  \/ handleConnectApi
  \/ \E t \in Texts : setText(t)
  \/ \E r \in Rates : slidePlaybackRate(r)
  \/ \E deep \in BOOLEAN : handleOptimization(deep)
  \/ \E i \in 1..MaxOps, t \in Texts : optimizationResolve(i, t)
  \/ \E i \in 1..MaxOps : optimizationReject(i)
  \/ optimizationTimer
  \/ handleSynthesis
  \/ \E i \in 1..MaxOps, stream \in Streams : synthesisSettle(i, stream)
  \/ \E i \in 1..MaxOps : synthesisReject(i)
  \/ \E i \in 1..MaxOps : synthesisSaved(i)
  \/ \E s \in 1..MaxOps : naturalEnd(s)
  \/ \E s \in 1..MaxOps : onended(s)
  \/ runEffects

SpecParams == Init /\ [][NextParams]_vars

\* The requests of the component of src/App.tsx: the textarea, optimization
\* and synthesis with their completions, and the end of playback.  The
\* budget MaxOps bounds the optimization and synthesis requests.
NextRequests ==
  \/ handleConnectApi
  \/ \E t \in Texts : typeText(t)
  \/ \E deep \in BOOLEAN : handleOptimization(deep)
  \/ \E i \in 1..MaxOps, t \in Texts : optimizationResolve(i, t)
  \/ \E i \in 1..MaxOps : optimizationReject(i)
  \/ optimizationTimer
  \/ handleSynthesis
  \/ \E i \in 1..MaxOps, stream \in Streams : synthesisSettle(i, stream)
  \/ \E i \in 1..MaxOps : synthesisReject(i)
  \/ \E i \in 1..MaxOps : synthesisSaved(i)
  \/ \E s \in 1..MaxOps : naturalEnd(s)
  \/ \E s \in 1..MaxOps : onended(s)
  \/ runEffects

SpecRequests == Init /\ [][NextRequests]_vars

\* ------------------------------------------------------------------- codec
\* SpecCodec applies one pure function to one input: audioBufferToWav to a
\* buffer, synthesizeSpeech to a fragment stream, pcmToAudioBuffer to a byte
\* array and a channel count, the index computation of updateKaraoke to an
\* elapsed time, a word count, a buffer duration and a playback rate, and
\* pcmToAudioBuffer followed by audioBufferToWav to the bytes of mono samples.
EncodeInput(b) == [IdleCodecIn EXCEPT !.kind = "encode", !.buffer = b]
AccumulateInput(st) == [IdleCodecIn EXCEPT !.kind = "accumulate", !.stream = st]
DecodeInput(bs, c) ==
  [IdleCodecIn EXCEPT !.kind = "decode", !.bytes = bs, !.channels = c]
RoundTripInput(bs) == [IdleCodecIn EXCEPT !.kind = "roundtrip", !.bytes = bs]
\* The ENCODE_WAV message: data and sampleRate, kept as a one-channel buffer.
WorkerInput(samples, sampleRate) ==
  [IdleCodecIn EXCEPT !.kind = "worker",
     !.buffer = [sampleRate |-> sampleRate, numberOfChannels |-> 1,
                 length |-> Len(samples), channelData |-> <<samples>>]]
TickInput(e, w, d, r) ==
  [IdleCodecIn EXCEPT !.kind = "tick",
     !.tick = [elapsed |-> e, words |-> w, bufferDuration |-> d, rate |-> r]]
\* The Speed slider: 0.5 to 1.5, in tenths.
SliderRates == 5..15

InitCodec ==
  /\ layout = "dashboard"
  /\ SessionInit
  /\ \/ \E c \in 1..MaxSamples : \E n \in 0..(MaxSamples \div c) :
          \E cd \in [1..c -> [1..n -> SampleVals]] :
            codecIn = EncodeInput([sampleRate |-> CtxSampleRate,
                                   numberOfChannels |-> c,
                                   length |-> n, channelData |-> cd])
     \/ \E k \in 0..MaxFragments : \E st \in [1..k -> Payloads] :
          codecIn = AccumulateInput(st)
     \/ \E k \in 0..MaxBytes, c \in DecodeChannels : \E bs \in [1..k -> ByteVals] :
          codecIn = DecodeInput(bs, c)
     \/ \E n \in 1..(MaxBytes \div 2) : \E bs \in [1..(2 * n) -> ByteVals] :
          codecIn = RoundTripInput(bs)
     \/ \E n \in 0..MaxSamples, sr \in WorkerSampleRates :
          \E samples \in [1..n -> SampleVals] :
            codecIn = WorkerInput(samples, sr)
     \/ \E w \in 1..MaxWords, d \in 1..MaxWords, r \in SliderRates :
          \E e \in 0..(2 * d + 1) : codecIn = TickInput(e, w, d, r)
  /\ codecOut = IdleCodecOut

encode ==
  /\ codecIn.kind = "encode" /\ ~codecOut.done
  /\ LET r == audioBufferToWav(codecIn.buffer)
     IN codecOut' = [IdleCodecOut EXCEPT !.done = TRUE, !.err = r.err,
                                         !.bytes = r.bytes]
  /\ UNCHANGED <<layout, session, refs, effects, platform, pending,
                 historyStore, errs, counters, codecIn>>

accumulate ==
  /\ codecIn.kind = "accumulate" /\ ~codecOut.done
  /\ LET r == synthesizeSpeech(codecIn.stream)
     IN codecOut' = [IdleCodecOut EXCEPT
                       !.done = TRUE, !.err = r.err, !.buffer = r.buffer,
                       !.bytes = synthesizeSpeechBytes(codecIn.stream)]
  /\ UNCHANGED <<layout, session, refs, effects, platform, pending,
                 historyStore, errs, counters, codecIn>>

decode ==
  /\ codecIn.kind = "decode" /\ ~codecOut.done
  /\ LET r == pcmToAudioBuffer(codecIn.bytes, CtxSampleRate, codecIn.channels)
     IN codecOut' = [IdleCodecOut EXCEPT !.done = TRUE, !.err = r.err,
                                         !.buffer = r.buffer]
  /\ UNCHANGED <<layout, session, refs, effects, platform, pending,
                 historyStore, errs, counters, codecIn>>

tick ==
  /\ codecIn.kind = "tick" /\ ~codecOut.done
  /\ codecOut' = [IdleCodecOut EXCEPT
                    !.done = TRUE,
                    !.index = karaokeIndexAt(codecIn.tick.elapsed, codecIn.tick)]
  /\ UNCHANGED <<layout, session, refs, effects, platform, pending,
                 historyStore, errs, counters, codecIn>>

\* The bytes of a synthesis as they reach a history record: decoded by
\* pcmToAudioBuffer, then encoded by audioBufferToWav.
roundTrip ==
  /\ codecIn.kind = "roundtrip" /\ ~codecOut.done
  /\ LET d == pcmToAudioBuffer(codecIn.bytes, CtxSampleRate, 1)
         w == IF d.err = "none" THEN audioBufferToWav(d.buffer)
              ELSE [err |-> d.err, bytes |-> <<>>]
     IN codecOut' = [IdleCodecOut EXCEPT !.done = TRUE, !.err = w.err,
                                         !.buffer = d.buffer,
                                         !.bytes = w.bytes]
  /\ UNCHANGED <<layout, session, refs, effects, platform, pending,
                 historyStore, errs, counters, codecIn>>

\* self.onmessage for type === 'ENCODE_WAV': encodeWAV(data, sampleRate).
onmessage ==
  /\ codecIn.kind = "worker" /\ ~codecOut.done
  /\ LET r == encodeWAV(codecIn.buffer.channelData[1],
                        codecIn.buffer.sampleRate)
     IN codecOut' = [IdleCodecOut EXCEPT !.done = TRUE, !.err = r.err,
                                         !.bytes = r.bytes]
  /\ UNCHANGED <<layout, session, refs, effects, platform, pending,
                 historyStore, errs, counters, codecIn>>

NextCodec ==
  encode \/ accumulate \/ decode \/ tick \/ roundTrip \/ onmessage

SpecCodec == InitCodec /\ [][NextCodec]_vars

\* ------------------------------------------------- properties of the codec
ReadU16(bytes, off) == bytes[off + 1] + 256 * bytes[off + 2]
ReadU32(bytes, off) == ReadU16(bytes, off) + 65536 * ReadU16(bytes, off + 2)
ReadI16(bytes, off) ==
  LET u == ReadU16(bytes, off) IN IF u >= 32768 THEN u - 65536 ELSE u
Encoded == codecIn.kind = "encode" /\ codecOut.done

\* C7: the encoder output for a buffer of frameCount frames and c channels is
\* exactly 44 + frameCount * c * 2 bytes long (44 bytes for zero frames,
\* 24,044 bytes for 12,000 mono frames).
C7_EncodedLength ==
  /\ Encoded =>
       /\ codecOut.err = "none"
       /\ Len(codecOut.bytes) =
            44 + codecIn.buffer.length * codecIn.buffer.numberOfChannels * 2
  /\ 44 + wavDataLength([length |-> 12000, numberOfChannels |-> 1]) = 24044

C7_Witness ==
  /\ Encoded
  /\ codecIn.buffer.length = 0
  /\ codecIn.buffer.numberOfChannels = 2
  /\ Len(codecOut.bytes) = 44

\* C8: the first 44 bytes are the RIFF/WAVE header with little-endian fields
\* (sizes, format code 1, channel count, sample rate, byte rate, block align,
\* bit depth 16, data length) and the samples follow interleaved frame by
\* frame in channel order.
C8_HeaderAndInterleaving ==
  Encoded =>
    LET b == codecOut.bytes
        c == codecIn.buffer.numberOfChannels
        r == codecIn.buffer.sampleRate
        n == codecIn.buffer.length
        d == n * c * 2
    IN /\ SubSeq(b, 1, 4) = <<82, 73, 70, 70>>
       /\ ReadU32(b, 4) = 36 + d
       /\ SubSeq(b, 9, 12) = <<87, 65, 86, 69>>
       /\ SubSeq(b, 13, 16) = <<102, 109, 116, 32>>
       /\ ReadU32(b, 16) = 16
       /\ ReadU16(b, 20) = 1
       /\ ReadU16(b, 22) = c
       /\ ReadU32(b, 24) = r
       /\ ReadU32(b, 28) = r * c * 2
       /\ ReadU16(b, 32) = c * 2
       /\ ReadU16(b, 34) = 16
       /\ SubSeq(b, 37, 40) = <<100, 97, 116, 97>>
       /\ ReadU32(b, 40) = d
       /\ \A i \in 0..(n - 1), ch \in 0..(c - 1) :
            ReadI16(b, 44 + 2 * (i * c + ch))
              = quantize(codecIn.buffer.channelData[ch + 1][i + 1])

C8_Witness ==
  /\ Encoded
  /\ codecIn.buffer.numberOfChannels = 2
  /\ codecIn.buffer.length = 2
  /\ codecIn.buffer.channelData = << <<Den, 0 - 3>>, <<0 - Den, Den \div 2>> >>
  /\ SubSeq(codecOut.bytes, 45, 52) = <<255, 127, 0, 128, 255, 255, 255, 63>>

\* C9: each encoded sample is the clamped sample scaled by 32768 when negative
\* and by 32767 otherwise, with the fraction dropped; samples above 1 encode as
\* 1.0 does (32767), samples below -1 as -1.0 does (-32768), and every encoded
\* value lies in -32768..32767.
C9_Quantization ==
  Encoded =>
    \A ch \in 1..codecIn.buffer.numberOfChannels, i \in 1..codecIn.buffer.length :
      LET s == codecIn.buffer.channelData[ch][i]
          e == ReadI16(codecOut.bytes,
                       44 + 2 * ((i - 1) * codecIn.buffer.numberOfChannels
                                 + (ch - 1)))
      IN /\ e \in (0 - 32768)..32767
         /\ s >= Den => e = 32767
         /\ s <= 0 - Den => e = 0 - 32768
         /\ (s < 0 /\ s > 0 - Den) =>
              (e * Den - s * 32768 >= 0 /\ e * Den - s * 32768 < Den)
         /\ (s >= 0 /\ s < Den) =>
              (s * 32767 - e * Den >= 0 /\ s * 32767 - e * Den < Den)

C9_Witness ==
  /\ Encoded
  /\ codecIn.buffer.numberOfChannels = 1
  /\ codecIn.buffer.length = 2
  /\ codecIn.buffer.channelData = << <<Den + Den \div 2, 0 - 2 * Den>> >>
  /\ SubSeq(codecOut.bytes, 45, 48) = <<255, 127, 0, 128>>

\* ----------------------------------------------- properties of the session
\* A source that has been started and is neither stopped nor ended.
Active(s) == sources[s].st = "playing"
ActiveSources == {s \in 1..Len(sources) : Active(s)}
InFlight == {i \in 1..Len(synthTasks) : synthTasks[i].stage = "request"}

\* C1: in every reachable state at most one source is active.
C1_AtMostOneActiveSource == Cardinality(ActiveSources) <= 1

\* C2: while one playback lasts (the same source stays the active source of
\* a playing session), no step lowers the karaoke cursor.
C2_CursorMonotone ==
  [][(/\ isPlaying /\ isPlaying'
      /\ sourceNode # 0 /\ sourceNode' = sourceNode
      /\ Active(sourceNode) /\ sources'[sourceNode].st = "playing")
     => currentWordIndex' >= currentWordIndex]_vars

\* C3: a stop and the ended event of a source leave isPlaying false, and once
\* the effects of a commit have run, a session that is not playing has no
\* requested frame and its cursor is -1.
C3_StopResets ==
  /\ [][(handleStop \/ \E s \in 1..Len(sources) : onended(s))
        => ~isPlaying']_vars
  /\ [](( ~isPlaying /\ ~EffectsPending)
        => (frames = {} /\ currentWordIndex = -1))

C3_Witness ==
  /\ ~isPlaying /\ ~EffectsPending
  /\ sourceNode # 0 /\ sources[sourceNode].stopped
  /\ elapsed > 0
  /\ frames = {} /\ currentWordIndex = -1

\* C4: a stop never lets an exception escape its event handler.
C4_StopNeverRaises == uncaught # "InvalidStateError"

\* C5: edits of rate, pitch and clarity gain raise nothing, and once the
\* effects have run the source started last plays with the rate and pitch set
\* last, through a filter whose gain is the clarity gain set last.
C5_ParamsRetained ==
  /\ uncaught = "none"
  /\ (~EffectsPending /\ sourceNode # 0 /\ Active(sourceNode)) =>
       /\ sources[sourceNode].playbackRate = playbackRate
       /\ sources[sourceNode].detune = pitchShift
       /\ sources[sourceNode].filter = filterNode
       /\ filters[filterNode].gain = emphasis

C5_Witness ==
  /\ ~EffectsPending /\ sourceNode # 0 /\ Active(sourceNode)
  /\ playbackRate = 5 /\ sources[sourceNode].playbackRate = 5
  /\ emphasis = 5 /\ filters[sources[sourceNode].filter].gain = 5

\* C6: at most one call of handleSynthesis awaits synthesizeSpeech.
C6_SingleSynthesisInFlight == Cardinality(InFlight) <= 1

\* C10: a stream without any audio fragment, or whose fragments decode to no
\* byte at all, makes synthesizeSpeech fail (with "No audio data generated"
\* in the first case); the session then stores no buffer, saves no history
\* record, starts no source and reports the failure.
NoFragment(stream) == \A k \in 1..Len(stream) : stream[k] = NoData
NoFrame(stream) ==
  \A k \in 1..Len(stream) : stream[k] = NoData \/ RemoveWs(stream[k]) = <<>>

C10_EmptyAudioFails ==
  [][\A i \in 1..Len(synthTasks), stream \in Streams :
       (NoFrame(stream) /\ synthesisSettle(i, stream)) =>
         /\ synthesizeSpeech(stream).buffer = NoBuffer
         /\ synthesizeSpeech(stream).err # "none"
         /\ NoFragment(stream) =>
              synthesizeSpeech(stream).err = "No audio data generated"
         /\ consoleError' = synthesizeSpeech(stream).err
         /\ UNCHANGED <<audioBuffer, historyStore, history, sources,
                        sourceNode, isPlaying>>
         /\ Len(synthTasks') = Len(synthTasks) - 1
         /\ processing'.statusMessage = "Synthesis Failed"]_vars

C10_Witness ==
  /\ consoleError = "No audio data generated"
  /\ processing.statusMessage = "Synthesis Failed"
  /\ audioBuffer = NoBuffer /\ historyStore = <<>> /\ sources = <<>>
  /\ synthTasks = <<>> /\ ~isPlaying

\* Bytes handed to pcmToAudioBuffer by the function applied, and its channels.
Decoded == codecIn.kind \in {"decode", "accumulate"} /\ codecOut.done
DecodedBytes ==
  IF codecIn.kind = "decode" THEN codecIn.bytes ELSE codecOut.bytes
DecodedChannels == IF codecIn.kind = "decode" THEN codecIn.channels ELSE 1

Accumulated == codecIn.kind = "accumulate" /\ codecOut.done
CarriesData(j) == codecIn.stream[j] # NoData
FragmentBytes(j) ==
  IF CarriesData(j) THEN decodeBase64(codecIn.stream[j]).val ELSE <<>>
RECURSIVE FragmentOffset(_)
FragmentOffset(j) ==
  IF j = 1 THEN 0 ELSE FragmentOffset(j - 1) + Len(FragmentBytes(j - 1))
AllFragmentsDecode ==
  /\ \E j \in 1..Len(codecIn.stream) : CarriesData(j)
  /\ \A j \in 1..Len(codecIn.stream) :
       CarriesData(j) => decodeBase64(codecIn.stream[j]).err = "none"

\* C12: the combined byte buffer is the fragments' bytes in the order
\* received: its length is the sum of the fragment lengths and fragment j
\* occupies the positions right after the fragments before it.
C12_ConcatenatedInOrder ==
  (Accumulated /\ AllFragmentsDecode) =>
    /\ Len(codecOut.bytes) = FragmentOffset(Len(codecIn.stream) + 1)
    /\ \A j \in 1..Len(codecIn.stream) :
         \A k \in 1..Len(FragmentBytes(j)) :
           codecOut.bytes[FragmentOffset(j) + k] = FragmentBytes(j)[k]

\* Two fragments of different sizes and contents have been combined, with a
\* data-less chunk between them.
C12_Witness ==
  /\ Accumulated
  /\ codecIn.stream = <<B64ThreeBytes, NoData, B64MaxSample>>
  /\ codecOut.bytes = <<1, 0, 0, 255, 127>>

\* Bytes 2k+1 and 2k+2 read as one two's-complement number, low byte first.
SignedLE(lo, hi) ==
  IF hi >= 128 THEN lo + 256 * hi - 65536 ELSE lo + 256 * hi

\* C13: a conversion that succeeds yields totalSamples / channelCount frames
\* (the whole part of the quotient); sample i of channel ch is the
\* little-endian signed 16-bit number at index i * channelCount + ch divided
\* by 32768, hence within [-1, 32767/32768].
C13_LittleEndianSamples ==
  (Decoded /\ codecOut.err = "none") =>
    LET b == codecOut.buffer
        c == DecodedChannels
        totalSamples == Len(DecodedBytes) \div 2
    IN /\ b.numberOfChannels = c
       /\ b.length = totalSamples \div c
       /\ \A ch \in 1..c : Len(b.channelData[ch]) = b.length
       /\ \A ch \in 1..c : \A i \in 1..b.length :
            LET k == (i - 1) * c + (ch - 1)
                v == SignedLE(DecodedBytes[2 * k + 1], DecodedBytes[2 * k + 2])
                x == b.channelData[ch][i]
            IN /\ x = v * (Den \div 32768)
               /\ 0 - Den <= x
               /\ x <= (32767 * Den) \div 32768

\* A two-channel conversion of the lowest and the highest sample.
C13_Witness ==
  /\ codecIn.kind = "decode" /\ codecOut.done /\ codecOut.err = "none"
  /\ codecIn.channels = 2
  /\ codecIn.bytes = <<0, 128, 255, 127>>
  /\ codecOut.buffer.channelData = <<<<0 - Den>>, <<32767 * 2>>>>

\* C14: a karaoke tick yields floor(clamp(elapsed / duration, 0, 1) *
\* wordCount) with duration = bufferDuration / rate; four words, buffer
\* duration 4 and rate 1.0 give index 2 at elapsed 2.
ClampedProgress(t) ==
  Max(0, Min(t.elapsed * t.rate, 10 * t.bufferDuration))
C14_KaraokeIndex ==
  (codecIn.kind = "tick" /\ codecOut.done) =>
    LET t == codecIn.tick
    IN /\ codecOut.index = (ClampedProgress(t) * t.words)
                             \div (10 * t.bufferDuration)
       /\ (t.words = 4 /\ t.bufferDuration = 4 /\ t.rate = 10 /\ t.elapsed = 2)
            => codecOut.index = 2

C14_Witness ==
  /\ codecIn.kind = "tick" /\ codecOut.done
  /\ codecIn.tick = [elapsed |-> 2, words |-> 4, bufferDuration |-> 4,
                     rate |-> 10]
  /\ codecOut.index = 2

\* C15: at most one audio context and at most one peaking filter are ever
\* created; every source is connected to that filter on that context, and
\* the filter keeps type peaking, frequency 3000 Hz and Q 1.
C15_SingleGraph ==
  /\ contexts <= 1
  /\ Len(filters) <= 1
  /\ \A f \in 1..Len(filters) :
       /\ filters[f].ctx = 1
       /\ filters[f].type = "peaking"
       /\ filters[f].frequency = FilterFrequency
       /\ filters[f].Q = FilterQ
  /\ \A s \in 1..Len(sources) :
       sources[s].filter = 1 /\ sources[s].ctx = 1

\* A synthesis completes: its handler reaches the end of the try block.
SynthesisCompletes(i) ==
  synthesisSaved(i) /\ processing'.statusMessage = "Ready"

InTag(t, k) ==
  \E i \in 1..k : \E j \in k..Len(t) :
    /\ i < j /\ t[i] = "<" /\ t[j] = ">"
    /\ \A m \in (i + 1)..(j - 1) : t[m] # ">"
\* r is t with its markup tags removed.
IsStripped(r, t) ==
  LET kept == {k \in 1..Len(t) : ~InTag(t, k)}
  IN /\ Len(r) = Cardinality(kept)
     /\ \A k \in kept : r[Cardinality({m \in kept : m <= k})] = t[k]

\* Synthesis i produces its buffer in this step; synthesis i fails in it.
SynthesisSucceeds(i) ==
  /\ i \in 1..Len(synthTasks) /\ synthTasks[i].stage = "request"
  /\ Len(synthTasks') = Len(synthTasks) /\ synthTasks'[i].stage = "save"
SynthesisFails(i) ==
  /\ i \in 1..Len(synthTasks) /\ synthTasks[i].stage = "request"
  /\ synthTasks' = RemoveAt(synthTasks, i)

\* C17: a synthesis that produces a buffer forwards exactly one record to the
\* store: its text is the text synthesized, its originalText that text
\* without markup tags, its audioBlob the WAV encoding of that buffer.  A
\* synthesis that fails forwards none, and nothing else writes to the store.
C17_OneRecordPerSynthesis ==
  [][/\ \A i \in 1..MaxOps :
          SynthesisSucceeds(i) =>
            /\ Len(historyStore') = Len(historyStore) + 1
            /\ SubSeq(historyStore', 1, Len(historyStore)) = historyStore
            /\ LET rec == historyStore'[Len(historyStore')]
                   wav == audioBufferToWav(synthTasks'[i].buffer)
               IN /\ rec.text = synthTasks[i].c.text
                  /\ IsStripped(rec.originalText, rec.text)
                  /\ wav.err = "none"
                  /\ rec.audioBlob = wav.bytes
     /\ \A i \in 1..MaxOps :
          SynthesisFails(i) => historyStore' = historyStore
     /\ historyStore' # historyStore =>
          \E i \in 1..MaxOps : SynthesisSucceeds(i)]_vars

\* The record of a synthesis of the tagged text is in the store.
C17_Witness ==
  /\ historyStore # <<>>
  /\ LET rec == historyStore[Len(historyStore)]
     IN /\ rec.text = TextTagged
        /\ rec.originalText = <<"a", " ", "a", " ", "a">>
        /\ rec.audioBlob = audioBufferToWav(audioBuffer).bytes
        /\ Len(rec.audioBlob) = 44 + 2 * audioBuffer.length

\* Synthesis i ends in the catch block: the request or the accumulation
\* threw, or playAudio did.
SynthesisEndsInCatch(i) ==
  \/ SynthesisFails(i)
  \/ synthesisSaved(i) /\ processing'.statusMessage # "Ready"

\* C18: a synthesis that fails leaves the session not synthesizing and not
\* playing under a failure status, starts no playback and issues no new
\* request; requests are added by handleSynthesis only.
C18_FailureIsTerminal ==
  [][/\ \A i \in 1..MaxOps :
          SynthesisEndsInCatch(i) =>
            /\ ~processing'.isSynthesizing
            /\ ~isPlaying'
            /\ processing'.statusMessage = "Synthesis Failed"
            /\ Len(sources') = Len(sources)
            /\ Len(synthTasks') = Len(synthTasks) - 1
     /\ Len(synthTasks') > Len(synthTasks) => handleSynthesis]_vars

\* C19: once the effects have run, every active source plays with the
\* current rate and pitch through a filter whose gain is the current
\* clarity gain.
C19_ActiveSourceFollowsParams ==
  ~EffectsPending =>
    \A s \in ActiveSources :
      /\ sources[s].playbackRate = playbackRate
      /\ sources[s].detune = pitchShift
      /\ filters[sources[s].filter].gain = emphasis

\* A step of the handler of an operation: its start, its completion or its
\* failure.
OperationStep ==
  \/ \E deep \in BOOLEAN : handleOptimization(deep)
  \/ \E i \in 1..MaxOps, t \in Texts : optimizationResolve(i, t)
  \/ \E i \in 1..MaxOps : optimizationReject(i)
  \/ handleSynthesis
  \/ \E i \in 1..MaxOps, stream \in Streams : synthesisSettle(i, stream)
  \/ \E i \in 1..MaxOps : synthesisReject(i)
  \/ \E i \in 1..MaxOps : synthesisSaved(i)

\* C20 as stated: the status message changes only in a step of an operation.
C20_StatusPersists ==
  [][processing'.statusMessage # processing.statusMessage
       => OperationStep]_vars

\* C20 amended: the status message changes only in a step of an operation
\* or when the timer armed by a completed optimization fires, and that
\* timer empties the message and clears both flags whatever set them.
C20_StatusPersistsUntilTimer ==
  /\ [][processing'.statusMessage # processing.statusMessage
          => (OperationStep \/ optimizationTimer)]_vars
  /\ [][optimizationTimer =>
          /\ processing'.statusMessage = ""
          /\ ~processing'.isSynthesizing /\ ~processing'.isThinking]_vars

\* The timer has emptied the status of a synthesis that is still in flight.
C20_Witness ==
  /\ processing.statusMessage = "" /\ ~processing.isSynthesizing
  /\ timers = 0
  /\ InFlight # {}

\* A frame requested by the karaoke effect as it last ran.
OfCurrentInstance(f) ==
  /\ isPlaying
  /\ f.id = animationFrameRef
  /\ f.words = Len(words(text))
  /\ f.bufferDuration = BufferDuration(audioBuffer)
  /\ f.rate = playbackRate

\* C21: a tick requests the next one only while elapsed < duration, and a
\* tick that sees elapsed >= duration leaves none requested; once the effect
\* has run (its cleanup cancelled the previous instance) every requested
\* frame belongs to the current instance, and a session that is not playing
\* has none and its cursor is -1.
C21_TicksStopAtEnd ==
  /\ [][\A h \in 1..MaxOps :
          updateKaraoke(h) =>
            LET f == CHOOSE g \in frames : g.id = h
            IN IF elapsed * f.rate < 10 * f.bufferDuration
               THEN Cardinality(frames') = 1
               ELSE frames' = {}]_vars
  /\ [](~EffectsPending =>
          /\ \A f \in frames : OfCurrentInstance(f)
          /\ ~isPlaying => (frames = {} /\ currentWordIndex = -1))

\* The last tick of a playback has run: the cursor is at the word count and
\* nothing is requested, while the session still plays.
C21_Witness ==
  /\ isPlaying /\ ~EffectsPending
  /\ frames = {}
  /\ currentWordIndex = Len(words(text)) /\ currentWordIndex > 1

\* The 16-bit value stored by the encoder for the sample decoded from the
\* bytes lo, hi.
ReEncoded(lo, hi) ==
  LET d == pcmToAudioBuffer(<<lo, hi>>, CtxSampleRate, 1)
  IN ReadI16(audioBufferToWav(d.buffer).bytes, 44)

\* C22: decode followed by encode is not the identity: some 16-bit sample
\* comes back as a different 16-bit value.
C22_RoundTripNotIdentity ==
  (codecIn.kind = "roundtrip" /\ codecOut.done) =>
    \E lo \in ByteVals, hi \in ByteVals :
      ReEncoded(lo, hi) # SignedLE(lo, hi)

\* The highest sample, 32767, has come back as 32766.
C22_Witness ==
  /\ codecIn.kind = "roundtrip" /\ codecOut.done /\ codecOut.err = "none"
  /\ codecIn.bytes = <<255, 127>>
  /\ SubSeq(codecOut.bytes, 45, 46) = <<254, 127>>

\* C29: a sample v <= 0 survives decode and encode unchanged, a sample
\* v > 0 comes back as v - 1.
C29_RoundTripError ==
  (codecIn.kind = "roundtrip" /\ codecOut.done) =>
    /\ codecOut.err = "none"
    /\ Len(codecOut.bytes) = 44 + Len(codecIn.bytes)
    /\ \A i \in 1..(Len(codecIn.bytes) \div 2) :
         LET v == SignedLE(codecIn.bytes[2 * i - 1], codecIn.bytes[2 * i])
             e == ReadI16(codecOut.bytes, 44 + 2 * (i - 1))
         IN e = IF v <= 0 THEN v ELSE v - 1

\* Samples of both signs and zero have made the round trip.
C29_Witness ==
  /\ codecIn.kind = "roundtrip" /\ codecOut.done
  /\ codecIn.bytes = <<0, 128, 0, 0, 127, 0>>
  /\ SubSeq(codecOut.bytes, 45, 50) = <<0, 128, 0, 0, 126, 0>>

\* C23: a synthesis request without a connected credential is answered by
\* the alert and changes nothing else: no request is issued, no audio node
\* is created, and the flags, the status, the source, the buffer, the
\* cursor and the history stay as they were.
C23_MissingCredentialIsFrame ==
  [][(handleSynthesis /\ ~isApiConnected) =>
        /\ alertMessage' = "Please connect your Gemini API Key first."
        /\ UNCHANGED <<processing, sourceNode, isPlaying, audioBuffer,
                       currentWordIndex, history, historyStore, text,
                       audioContext, filterNode, platform, pending>>]_vars

\* The request was refused in a session that has a stored buffer, a
\* history record and an ended source.
C23_Witness ==
  /\ ~isApiConnected
  /\ alertMessage = "Please connect your Gemini API Key first."
  /\ audioBuffer # NoBuffer /\ history # <<>>
  /\ sourceNode # 0 /\ sources[sourceNode].st = "ended"
  /\ synthTasks = <<>>

\* C24: the session is out of Playing only when no started source is still
\* playing.
C24_PlayingTracksNewestSource == ~isPlaying => ActiveSources = {}

\* C25: an accepted synthesis request leaves no source playing: the source of
\* the session is stopped and isPlaying is cleared in the step that sets the
\* synthesizing flag, and a source starts playing only in a step that runs
\* playAudio.
C25_RequestStopsPlayback ==
  /\ [][(handleSynthesis /\ isApiConnected) =>
          /\ processing'.isSynthesizing
          /\ ~isPlaying'
          /\ ActiveSources' = {}]_vars
  /\ [][ActiveSources' \subseteq ActiveSources \cup {Len(sources')}]_vars

\* C26: while the session is Playing, a step that neither stops nor replaces
\* the active source leaves the stored buffer and the text as they were at
\* play time; restoring a history item never starts playback.
C26_PlaybackDataBound ==
  /\ [][(isPlaying /\ isPlaying' /\ sourceNode' = sourceNode
           /\ sources' = sources)
          => (text' = text /\ audioBuffer' = audioBuffer)]_vars
  /\ [][((\E k \in 1..MaxOps : restoreHistoryItem(k))
           \/ (\E i \in 1..MaxOps : restoreResolve(i)))
          => (sources' = sources /\ isPlaying' = isPlaying)]_vars

\* C27: the karaoke cursor is -1 or lies in 0..wordCount, where wordCount is
\* the number of words of the current text, and a tick sets it to wordCount
\* exactly when it observes elapsed >= duration.
C27_CursorInRange ==
  /\ [](currentWordIndex = -1 \/ currentWordIndex \in 0..Len(words(text)))
  /\ [][\A h \in 1..MaxOps : updateKaraoke(h) =>
          LET f == CHOOSE g \in frames : g.id = h
          IN (currentWordIndex' = Len(words(text))) <=> ~BeforeEnd(f)]_vars

\* The component of src/App.tsx with the deliveries the platform guarantees:
\* a playing source reaches its end and its ended event is dispatched, React
\* runs the effects of a commit, and the synthesis request and the history
\* write settle.
synthesisResult ==
  \/ \E i \in 1..MaxOps, stream \in Streams : synthesisSettle(i, stream)
  \/ \E i \in 1..MaxOps : synthesisReject(i)

Fairness ==
  /\ WF_vars(\E s \in 1..MaxOps : naturalEnd(s))
  /\ WF_vars(\E s \in 1..MaxOps : onended(s))
  /\ WF_vars(runEffects)
  /\ WF_vars(synthesisResult)
  /\ WF_vars(\E i \in 1..MaxOps : synthesisSaved(i))

NextPlayback ==
  \/ handleConnectApi
  \/ \E t \in Texts : setText(t)
  \/ \E deep \in BOOLEAN : handleOptimization(deep)
  \/ \E i \in 1..MaxOps : optimizationReject(i)
  \/ handleSynthesis
  \/ \E i \in 1..MaxOps, stream \in Streams : synthesisSettle(i, stream)
  \/ \E i \in 1..MaxOps : synthesisReject(i)
  \/ \E i \in 1..MaxOps : synthesisSaved(i)
  \/ handleStop
  \/ \E s \in 1..MaxOps : naturalEnd(s)
  \/ \E s \in 1..MaxOps : onended(s)
  \/ advanceClock
  \/ \E h \in 1..MaxOps : updateKaraoke(h)
  \/ runEffects

SpecFair == Init /\ [][NextPlayback]_vars /\ Fairness

\* C28: every playback that starts eventually leaves Playing with the cursor
\* back at -1, and every synthesis that starts eventually clears the
\* synthesizing flag.
C28_PlaybackAndSynthesisEnd ==
  /\ isPlaying ~> (~isPlaying /\ currentWordIndex = -1)
  /\ processing.isSynthesizing ~> ~processing.isSynthesizing

C28_Witness ==
  /\ ~EffectsPending
  /\ Len(sources) = 1
  /\ \A s \in 1..Len(sources) : sources[s].st = "ended" /\ ~sources[s].stopped
  /\ ~isPlaying
  /\ currentWordIndex = -1
  /\ synthTasks = <<>>
  /\ processing = SynthesisFailed

\* C30: for every mono sample sequence and sample rate, the bytes written by
\* the worker's encodeWAV are those audioBufferToWav writes for a
\* one-channel buffer holding the same samples at the same rate.
C30_WorkerMatchesEncoder ==
  (codecIn.kind = "worker" /\ codecOut.done) =>
    /\ codecOut.err = "none"
    /\ codecOut.bytes = audioBufferToWav(codecIn.buffer).bytes
    /\ Len(codecOut.bytes) = 44 + 2 * codecIn.buffer.length

C30_Witness ==
  /\ codecIn.kind = "worker" /\ codecOut.done
  /\ codecIn.buffer.sampleRate = 2 * CtxSampleRate
  /\ codecIn.buffer.channelData[1] = <<0 - 2 * Den, 0 - 3, Den + Den \div 2>>
  /\ SubSeq(codecOut.bytes, 45, 50) = <<0, 128, 255, 255, 255, 127>>

====
